---- MODULE Spec2Model ----
(***************************************************************************)
(* Chaskey-LTS in counter mode (class Chaskey of chaskey.py).              *)
(*                                                                         *)
(* A Python int holding a 32-bit word is written as the sequence of its    *)
(* 32 binary digits, least significant first; a bytes object is a sequence *)
(* of numbers in 0..255.                                                   *)
(***************************************************************************)
EXTENDS Integers, Sequences, FiniteSets, TLC

\* ------------------------------------------------------------------------
\* Python's integer operators on binary digits
\* ------------------------------------------------------------------------

\* the 8 binary digits of the byte b
RECURSIVE ByteBits(_, _)
ByteBits(b, n) == IF n = 0 THEN <<>> ELSE <<b % 2>> \o ByteBits(b \div 2, n - 1)

\* the number written by the digits w
RECURSIVE BitsValue(_)
BitsValue(w) == IF w = <<>> THEN 0 ELSE Head(w) + 2 * BitsValue(Tail(w))

\* a ^ b on words of the same width
RECURSIVE BitXor(_, _)
BitXor(a, b) ==
  IF a = <<>> THEN <<>>
  ELSE <<(Head(a) + Head(b)) % 2>> \o BitXor(Tail(a), Tail(b))

\* a | b on words of the same width
RECURSIVE BitOr(_, _)
BitOr(a, b) ==
  IF a = <<>> THEN <<>>
  ELSE <<IF Head(a) = 1 \/ Head(b) = 1 THEN 1 ELSE 0>> \o BitOr(Tail(a), Tail(b))

\* the digits of a + b + c up to the width of a; the carry out of the last
\* digit is what the mask drops
RECURSIVE AddDigits(_, _, _)
AddDigits(a, b, c) ==
  IF a = <<>> THEN <<>>
  ELSE LET s == Head(a) + Head(b) + c
       IN  <<s % 2>> \o AddDigits(Tail(a), Tail(b), s \div 2)

\* (a + b) & 0xffffffff
AddMask32(a, b) == AddDigits(a, b, 0)

\* the digits of a - b - c up to the width of a (two's complement, as Python's
\* & gives for a negative left operand)
RECURSIVE SubDigits(_, _, _)
SubDigits(a, b, c) ==
  IF a = <<>> THEN <<>>
  ELSE LET s == Head(a) - Head(b) - c
       IN  <<(s + 2) % 2>> \o SubDigits(Tail(a), Tail(b), IF s < 0 THEN 1 ELSE 0)

\* (a - b) & 0xffffffff
SubMask32(a, b) == SubDigits(a, b, 0)

Zeros(n) == [i \in 1..n |-> 0]

\* Chaskey._rol: (n << rot % width) & (2**width-1) | ((n & (2**width-1)) >> (width-(rot % width)))
rol(n, rot, width) ==
  LET r == rot % width
      shl == Zeros(r) \o SubSeq(n, 1, width - r)
      shr == SubSeq(n, width - r + 1, width) \o Zeros(width - r)
  IN  BitOr(shl, shr)

\* Chaskey._ror: ((n & (2**width-1)) >> rot % width) | (n << (width - (rot % width)) & (2**width-1))
ror(n, rot, width) ==
  LET r == rot % width
      shr == SubSeq(n, r + 1, width) \o Zeros(r)
      shl == Zeros(width - r) \o SubSeq(n, 1, r)
  IN  BitOr(shr, shl)

\* ------------------------------------------------------------------------
\* struct.pack / struct.unpack with the format 'IIII' (native byte order)
\* ------------------------------------------------------------------------
ByteOrders == {"little", "big"}

\* the 4 bytes of one word, least significant first
WordBytes(order, b) == IF order = "little" THEN b ELSE <<b[4], b[3], b[2], b[1]>>

\* one unsigned int from 4 bytes
unpackI(order, b) ==
  LET l == WordBytes(order, b)
  IN  ByteBits(l[1], 8) \o ByteBits(l[2], 8) \o ByteBits(l[3], 8) \o ByteBits(l[4], 8)

\* 4 bytes from one unsigned int
packI(order, w) ==
  WordBytes(order, <<BitsValue(SubSeq(w, 1, 8)), BitsValue(SubSeq(w, 9, 16)),
                     BitsValue(SubSeq(w, 17, 24)), BitsValue(SubSeq(w, 25, 32))>>)

\* struct.unpack('IIII', buf) for a 16-byte buf; v[x] of the code is unpack[x + 1]
unpack(order, buf) ==
  <<unpackI(order, SubSeq(buf, 1, 4)), unpackI(order, SubSeq(buf, 5, 8)),
    unpackI(order, SubSeq(buf, 9, 12)), unpackI(order, SubSeq(buf, 13, 16))>>

\* struct.pack('IIII', *v)
pack(order, v) ==
  packI(order, v[1]) \o packI(order, v[2]) \o packI(order, v[3]) \o packI(order, v[4])

\* ------------------------------------------------------------------------
\* Chaskey._chaskey_block
\* ------------------------------------------------------------------------
Rounds == 16

\* one pass of the loop body with enc is True
EncRound(v) ==
  LET a0 == AddMask32(v[1], v[2])
      b1 == BitXor(rol(v[2], 5, 32), a0)
      c0 == rol(a0, 16, 32)
      a2 == AddMask32(v[3], v[4])
      b3 == BitXor(rol(v[4], 8, 32), a2)
      d0 == AddMask32(c0, b3)
      c3 == BitXor(rol(b3, 13, 32), d0)
      b2 == AddMask32(a2, b1)
      c1 == BitXor(rol(b1, 7, 32), b2)
      c2 == rol(b2, 16, 32)
  IN  <<d0, c1, c2, c3>>

\* DecRound with the last subtraction written as the addition of the forward
\* pass
DecRoundAdd(v) ==
  LET a2 == ror(v[3], 16, 32)
      a1 == ror(BitXor(v[2], a2), 7, 32)
      b2 == SubMask32(a2, a1)
      a3 == ror(BitXor(v[4], v[1]), 13, 32)
      a0 == SubMask32(v[1], a3)
      b3 == ror(BitXor(a3, b2), 8, 32)
      c2 == SubMask32(b2, b3)
      b0 == ror(a0, 16, 32)
      b1 == ror(BitXor(a1, b0), 5, 32)
      c0 == AddMask32(b0, b1)
  IN  <<c0, b1, c2, b3>>

\* one pass of the loop body with enc not True
DecRound(v) ==
  LET a2 == ror(v[3], 16, 32)
      a1 == ror(BitXor(v[2], a2), 7, 32)
      b2 == SubMask32(a2, a1)
      a3 == ror(BitXor(v[4], v[1]), 13, 32)
      a0 == SubMask32(v[1], a3)
      b3 == ror(BitXor(a3, b2), 8, 32)
      c2 == SubMask32(b2, b3)
      b0 == ror(a0, 16, 32)
      b1 == ror(BitXor(a1, b0), 5, 32)
      c0 == SubMask32(b0, b1)
  IN  <<c0, b1, c2, b3>>

\* n passes of the loop "for x in range(0, 16)"; each pass is computed (v is
\* the list of 4 words) before the next one starts
RECURSIVE RoundLoop(_, _, _)
RoundLoop(enc, v, n) ==
  IF n = 0 THEN v
  ELSE LET w == IF enc THEN EncRound(v) ELSE DecRound(v)
       IN  IF Len(w) = 4 THEN RoundLoop(enc, w, n - 1) ELSE w

KeyXor(v, k) ==
  <<BitXor(v[1], k[1]), BitXor(v[2], k[2]), BitXor(v[3], k[3]), BitXor(v[4], k[4])>>

\* the body of _chaskey_block on the unpacked words v of buf and k of the key
permute(order, enc, v, k) == pack(order, KeyXor(RoundLoop(enc, KeyXor(v, k), Rounds), k))

\* the two copies of chaskey.py in the repository
Legacy == "chaskey/chaskey.py"
Packaged == "src/chaskey/chaskey.py"
Files == {Legacy, Packaged}

\* The result is the value returned, [kind |-> "bytes", val |-> ...] or
\* [kind |-> "int", val |-> 0], or the exception raised by struct.unpack,
\* [kind |-> "struct.error"].  For short input one copy of the file returns 0,
\* the other b"".
chaskey_block(file, order, key, enc, buf) ==
  IF Len(key) < 16 \/ Len(buf) < 16
  THEN IF file = Legacy THEN [kind |-> "int", val |-> 0] ELSE [kind |-> "bytes", val |-> <<>>]
  ELSE IF Len(buf) # 16 \/ Len(key) # 16 THEN [kind |-> "struct.error", val |-> <<>>]
  ELSE [kind |-> "bytes", val |-> permute(order, enc, unpack(order, buf), unpack(order, key))]

\* ------------------------------------------------------------------------
\* Chaskey._chaskey_ctr
\* ------------------------------------------------------------------------

\* data[i] ^ k[x] on two bytes
ByteXor(a, b) == BitsValue(BitXor(ByteBits(a, 8), ByteBits(b, 8)))

\* An int of any size is written as its base-256 digits, least significant
\* first.
Reverse(b) == [j \in 1..Len(b) |-> b[Len(b) + 1 - j]]

\* int.from_bytes(b, 'big')
from_bytes(b) == <<>> \o Reverse(b)

\* c + 1
RECURSIVE PlusOne(_)
PlusOne(n) ==
  IF n = <<>> THEN <<1>>
  ELSE IF Head(n) < 255 THEN <<Head(n) + 1>> \o Tail(n)
  ELSE <<0>> \o PlusOne(Tail(n))

\* n without its leading zero digits
RECURSIVE Significant(_)
Significant(n) ==
  IF n # <<>> /\ n[Len(n)] = 0 THEN Significant(SubSeq(n, 1, Len(n) - 1)) ELSE n

\* c.to_bytes(length, 'big'): OverflowError when c needs more than length bytes
to_bytes(n, length) ==
  LET d == Significant(n)
  IN  IF Len(d) > length THEN [kind |-> "OverflowError", val |-> <<>>]
      ELSE [kind |-> "bytes", val |-> <<>> \o Reverse(d \o Zeros(length - Len(d)))]

\* The while loop of _chaskey_ctr from the state s = [i, o, counter, fed]:
\* i bytes consumed, o the output so far, counter the loop's counter variable,
\* fed the counter values handed to the permutation so far.  The result says
\* how the loop ends (kind "bytes": it returns out; otherwise kind is the
\* exception raised) and what the counter variable holds at that point.
RECURSIVE ctr_loop(_, _, _, _, _)

\* one pass of the loop body, k being what _chaskey_block returned or raised
ctr_pass(file, order, key, data, s, k) ==
  LET lenRemaining == Len(data) - s.i
      lenBlock == IF lenRemaining < 16 THEN lenRemaining ELSE 16
      Raise(kind, fed) == [kind |-> kind, out |-> <<>>, counter |-> s.counter, fed |-> fed]
  IN  IF k.kind = "struct.error" THEN Raise("struct.error", s.fed)
      ELSE IF k.kind = "int" THEN Raise("TypeError", s.fed)         \* k[x] on 0
      ELSE IF Len(k.val) < lenBlock THEN Raise("IndexError", s.fed) \* k[x] on b""
      ELSE LET o == s.o \o [x \in 1..lenBlock |-> ByteXor(data[s.i + x], k.val[x])]
               c == to_bytes(PlusOne(from_bytes(s.counter)), 16)
               fed == Append(s.fed, s.counter)
           IN  IF c.kind # "bytes" THEN Raise(c.kind, fed)
               ELSE ctr_loop(file, order, key, data,
                             [i |-> s.i + lenBlock, o |-> o, counter |-> c.val, fed |-> fed])

ctr_loop(file, order, key, data, s) ==
  IF Len(data) - s.i = 0
  THEN [kind |-> "bytes", out |-> s.o, counter |-> s.counter, fed |-> s.fed]
  ELSE ctr_pass(file, order, key, data, s, chaskey_block(file, order, key, TRUE, s.counter))

\* _chaskey_ctr of src/chaskey/chaskey.py: the loop works on a local copy of
\* self.counter, and self.counter is left as it was
chaskey_ctr(order, self, data) ==
  [ctr_loop(Packaged, order, self.key, data,
            [i |-> 0, o |-> <<>>, counter |-> self.counter, fed |-> <<>>])
     EXCEPT !.counter = self.counter]

\* _chaskey_ctr of chaskey/chaskey.py: the loop works on self.counter itself
chaskey_ctr_inplace(order, self, data) ==
  ctr_loop(Legacy, order, self.key, data,
           [i |-> 0, o |-> <<>>, counter |-> self.counter, fed |-> <<>>])

\* ------------------------------------------------------------------------
\* Chaskey.__init__, Chaskey.encrypt, Chaskey.decrypt
\* ------------------------------------------------------------------------

\* A str is written as the sequence of its characters.
UpperLetters == <<"A","B","C","D","E","F","G","H","I","J","K","L","M",
                  "N","O","P","Q","R","S","T","U","V","W","X","Y","Z">>
LowerLetters == <<"a","b","c","d","e","f","g","h","i","j","k","l","m",
                  "n","o","p","q","r","s","t","u","v","w","x","y","z">>

\* str.lower
lower(str) ==
  [j \in 1..Len(str) |->
     IF \E u \in 1..26 : UpperLetters[u] = str[j]
     THEN LowerLetters[CHOOSE u \in 1..26 : UpperLetters[u] = str[j]]
     ELSE str[j]]

ctr == <<"c", "t", "r">>

\* A mode argument is [type |-> the name of its Python type, val |-> its
\* content].  The classes besides the built-in ones:
\*   class MyBytes(bytes): pass        class MyBA(bytearray): pass
Base(type) ==
  IF type = "MyBytes" THEN "bytes"
  ELSE IF type = "MyBA" THEN "bytearray"
  ELSE "object"

\* isinstance(x, classes): the type of x or a class it derives from is one of
\* classes
isinstance(x, classes) == x.type \in classes \/ Base(x.type) \in classes

\* __init__(mode, key, *mode_args): the instance it builds, or the error raised.
\* The legacy file compares type(mode_args[0]) with bytes and bytearray, so it
\* refuses an instance of a subclass; the packaged file asks isinstance.
init(file, mode, key, mode_args) ==
  IF lower(mode) = ctr
  THEN IF Len(mode_args) < 1
       THEN [kind |-> "ValueError: CTR mode requires a nonce"]
       ELSE IF (IF file = Legacy
                THEN mode_args[1].type # "bytes" /\ mode_args[1].type # "bytearray"
                ELSE ~isinstance(mode_args[1], {"bytes", "bytearray"}))
       THEN [kind |-> "ValueError: CTR mode nonce must be a bytes-like type"]
       ELSE [kind |-> "instance",
             self |-> [mode |-> mode, key |-> key, counter |-> mode_args[1].val,
                       has_counter |-> TRUE]]
  ELSE [kind |-> "ValueError: unsupported mode"]

\* the value of a call that raises before _chaskey_ctr runs
Raised(kind, self) == [kind |-> kind, out |-> <<>>, fed |-> <<>>, counter |-> self.counter]

\* encrypt(data): [kind, out] is what the caller gets (kind "bytes": out is
\* returned; otherwise kind is the exception), counter is self.counter when
\* the call ends, fed the counter values handed to the permutation
encrypt(file, order, self, data) ==
  IF self.mode = ctr
  THEN IF ~self.has_counter THEN Raised("AttributeError", self)
       ELSE IF file = Legacy THEN chaskey_ctr_inplace(order, self, data)
            ELSE chaskey_ctr(order, self, data)
  ELSE Raised("ValueError: unsupported mode", self)

\* decrypt(data)
decrypt(file, order, self, data) ==
  IF self.mode = ctr
  THEN IF ~self.has_counter THEN Raised("AttributeError", self)
       ELSE IF file = Legacy THEN chaskey_ctr_inplace(order, self, data)
            ELSE chaskey_ctr(order, self, data)
  ELSE Raised("ValueError: unsupported mode", self)

\* ------------------------------------------------------------------------
\* Inputs
\* ------------------------------------------------------------------------
MaxCalls == 2       \* calls of encrypt/decrypt in one run
MaxNew == 2         \* constructions in one run
MaxDataLen == 17    \* the longest data buffer
NumBlocks == 12     \* blocks handed to the permutation on its own
NumKeys == 5       \* keys handed to the permutation on its own

Bytes(n, b) == [j \in 1..n |-> b]

\* key and iv of tests/test_chaskey.py
KeyTest == <<48, 49, 50, 51, 52, 53, 54, 55, 56, 57, 48, 49, 50, 51, 52, 53>>
IvTest == Bytes(16, 48)

\* the counter 2^128 - 1 and the one before it
CounterMax == Bytes(16, 255)
CounterMaxLess1 == Append(Bytes(15, 255), 254)

Foo == <<102, 111, 111>>
Pattern(n, seed) == [j \in 1..n |-> (seed * 89 + j * (2 * seed + 35)) % 256]

DataLens == {0, 3, 16, MaxDataLen}
DataOf(n) == IF n = 3 THEN Foo ELSE Pattern(n, 7)
DataSet == {DataOf(n) : n \in DataLens}

ecb == <<"e", "c", "b">>
CTR == <<"C", "T", "R">>
Arg(type, val) == [type |-> type, val |-> val]

CtorInputs ==
     {[mode |-> ctr, key |-> KeyTest, args |-> <<Arg("bytes", c)>>] :
        c \in {IvTest, CounterMax, Bytes(15, 48), Bytes(17, 48)}}
  \cup {[mode |-> ctr, key |-> KeyTest, args |-> <<Arg("bytearray", CounterMaxLess1)>>],
        [mode |-> ctr, key |-> KeyTest, args |-> <<Arg("MyBytes", IvTest)>>],
        [mode |-> ctr, key |-> KeyTest, args |-> <<Arg("MyBA", IvTest)>>]}
  \cup {[mode |-> ctr, key |-> k, args |-> <<Arg("bytes", IvTest)>>] :
        k \in {SubSeq(KeyTest, 1, 15), Append(KeyTest, 54)}}
  \cup {[mode |-> CTR, key |-> KeyTest, args |-> <<Arg("bytes", IvTest)>>],
        [mode |-> ctr, key |-> KeyTest, args |-> <<>>],
        [mode |-> ctr, key |-> KeyTest, args |-> <<Arg("str", <<"0">>)>>],
        [mode |-> ecb, key |-> KeyTest, args |-> <<>>]}

\* keys and blocks for the permutation on its own: seed 0 is all zero bytes,
\* seed 1 all 0xff, the others mixed; lengths 15 and 17 besides 16
BlockKeys == {KeyTest, SubSeq(KeyTest, 1, 15), Append(KeyTest, 54)}
               \cup {Pattern(16, s) : s \in 1..(NumKeys - 1)}
BlockBufs == {Bytes(16, 0), Bytes(16, 255), Bytes(15, 0), Bytes(17, 0)}
               \cup {Pattern(16, s) : s \in 1..(NumBlocks - 2)}

\* ------------------------------------------------------------------------
\* State
\* ------------------------------------------------------------------------
VARIABLES
  order,   \* the byte order struct uses for 'I' on this host
  file,    \* the copy of chaskey.py that is imported
  given,   \* the arguments this run constructs its instances from
  self,    \* the Chaskey instance the caller holds, or NoInst
  ctor,    \* how the latest construction ended
  fedall,  \* the counter values self has handed to the permutation, in order
  last,    \* the latest encrypt/decrypt call and how it ended, or NoCall
  prev,    \* the call before it, or NoCall
  ncalls,  \* calls made so far
  nnew,    \* constructions made so far
  blk      \* the latest direct call of _chaskey_block and its result, or NoBlock

vars == <<order, file, given, self, ctor, fedall, last, prev, ncalls, nnew, blk>>

NoInst == [kind |-> "none"]
NoCall == [op |-> "none"]
NoBlock == [op |-> "none"]

\* nothing constructed, nothing called
Fresh ==
  /\ file \in Files
  /\ self = NoInst
  /\ ctor = "none"
  /\ fedall = <<>>
  /\ last = NoCall
  /\ prev = NoCall
  /\ ncalls = 0
  /\ nnew = 0
  /\ blk = NoBlock

Init ==
  /\ order \in ByteOrders
  /\ given \in CtorInputs
  /\ Fresh

\* c = Chaskey(mode, key, *mode_args); when __init__ raises, the caller keeps
\* the instance it had
New ==
  /\ nnew < MaxNew
  /\ nnew' = nnew + 1
  /\ LET r == init(file, given.mode, given.key, given.args)
     IN  /\ ctor' = r.kind
         /\ IF r.kind = "instance"
            THEN self' = r.self /\ fedall' = <<>>
            ELSE UNCHANGED <<self, fedall>>
  /\ UNCHANGED <<order, file, given, last, prev, ncalls, blk>>

\* the data a caller passes: a buffer of its own or the bytes the latest call
\* returned
CallData == DataSet \cup (IF last.op # "none" /\ last.kind = "bytes" THEN {last.out} ELSE {})

Called(op, data, r) ==
  /\ ncalls' = ncalls + 1
  /\ self' = [self EXCEPT !.counter = r.counter]
  /\ fedall' = fedall \o r.fed
  /\ prev' = last
  /\ last' = [op |-> op, inst |-> nnew, mode |-> self.mode, key |-> self.key, c0 |-> self.counter,
              data |-> data, kind |-> r.kind, out |-> r.out, fed |-> r.fed,
              after |-> r.counter]
  /\ UNCHANGED <<order, file, given, ctor, nnew, blk>>

\* c.encrypt(data)
Encrypt(data) ==
  /\ self # NoInst
  /\ ncalls < MaxCalls
  /\ Called("encrypt", data, encrypt(file, order, self, data))

\* c.decrypt(data)
Decrypt(data) ==
  /\ self # NoInst
  /\ ncalls < MaxCalls
  /\ Called("decrypt", data, decrypt(file, order, self, data))

Next ==
  \/ New
  \/ \E data \in CallData : Encrypt(data)
  \/ \E data \in CallData : Decrypt(data)

Spec == Init /\ [][Next]_vars

\* c._chaskey_block(enc, buf) on an instance with the key `key`
Block(enc, key, buf) ==
  /\ blk' = [op |-> "block", enc |-> enc, key |-> key, buf |-> buf, chained |-> FALSE,
             res |-> chaskey_block(file, order, key, enc, buf)]
  /\ UNCHANGED <<order, file, given, self, ctor, fedall, last, prev, ncalls, nnew>>

\* c._chaskey_block(False, b) on the bytes b that c._chaskey_block(True, buf)
\* returned
BlockBack ==
  /\ blk.op = "block" /\ blk.enc /\ ~blk.chained
  /\ blk.res.kind = "bytes"
  /\ blk' = [op |-> "block", enc |-> FALSE, key |-> blk.key, buf |-> blk.res.val,
             chained |-> TRUE, orig |-> blk.buf,
             res |-> chaskey_block(file, order, blk.key, FALSE, blk.res.val)]
  /\ UNCHANGED <<order, file, given, self, ctor, fedall, last, prev, ncalls, nnew>>

NextBlock ==
  \/ \E enc \in BOOLEAN, key \in BlockKeys, buf \in BlockBufs :
       blk.op = "none" /\ Block(enc, key, buf)
  \/ BlockBack

InitBlock ==
  /\ order \in ByteOrders
  /\ given = [mode |-> ctr, key |-> KeyTest, args |-> <<Arg("bytes", IvTest)>>]
  /\ Fresh

SpecBlock == InitBlock /\ [][NextBlock]_vars

\* ------------------------------------------------------------------------
\* Properties
\* ------------------------------------------------------------------------
IsCall(c) == c.op \in {"encrypt", "decrypt"}

\* the call c was made on an instance in CTR mode with a 16-byte key and a
\* 16-byte counter
OnSound(c) == IsCall(c) /\ c.mode = ctr /\ Len(c.key) = 16 /\ Len(c.c0) = 16

\* ceil(n / 16)
BlocksOf(n) == (n + 15) \div 16

\* the 16-byte big-endian counter (c + n) mod 2^128
RECURSIVE AddWrap(_, _)
AddWrap(c, n) ==
  IF n = 0 THEN c
  ELSE AddWrap(<<>> \o Reverse(SubSeq(PlusOne(Reverse(c)), 1, 16)), n - 1)

\* the calls prev and last are A.encrypt(d) and B.decrypt(A's result) (or
\* decrypt and encrypt) on two instances in the state they were constructed in
RoundTrip ==
  /\ IsCall(prev) /\ IsCall(last)
  /\ prev.op # last.op
  /\ prev.inst # last.inst
  /\ OnSound(prev) /\ OnSound(last)
  /\ prev.key = given.key /\ last.key = given.key
  /\ prev.c0 = given.args[1].val /\ last.c0 = given.args[1].val
  /\ prev.kind = "bytes"
  /\ last.data = prev.out

\* C1: stream involution. For every 16-byte key k, 16-byte counter c and data
\* d, with A and B both constructed as Chaskey('ctr', k, c), A.encrypt(d)
\* returns and B.decrypt of it returns d; likewise with decrypt and encrypt
\* exchanged.
C1_StreamInvolution ==
  /\ (OnSound(last) /\ last.c0 = given.args[1].val) => last.kind = "bytes"
  /\ RoundTrip => (last.kind = "bytes" /\ last.out = prev.data)

\* The part of C1 that the code keeps: whenever the first call returned, the
\* second returns the first call's data.
StreamInvolutionWhenReturned ==
  RoundTrip => (last.kind = "bytes" /\ last.out = prev.data)

RoundTripReached == RoundTrip /\ Len(last.out) = 17 /\ last.out # last.data

\* C2: the permutation is a keyed bijection. For every 16-byte key and
\* 16-byte block b, _chaskey_block(False, _chaskey_block(True, b)) under the
\* same key returns b.
C2_PermutationInverts ==
  (blk.op = "block" /\ blk.chained /\ Len(blk.key) = 16 /\ Len(blk.orig) = 16)
    => (blk.res.kind = "bytes" /\ blk.res.val = blk.orig)

\* C2's case: the inverse pass has returned the all-0xff block that the
\* forward pass had turned into another block under the key of the tests
C2_Inverted ==
  /\ blk.op = "block" /\ blk.chained
  /\ blk.key = KeyTest
  /\ blk.orig = Bytes(16, 255)
  /\ blk.buf # blk.orig
  /\ blk.res.kind = "bytes" /\ blk.res.val = blk.orig

\* C3: counter monotonicity. After encrypt(d) or decrypt(d) with len(d) = N on
\* an instance whose counter was c0, the instance's counter is
\* (c0 + ceil(N/16)) mod 2^128.
C3_CounterAdvances ==
  OnSound(last) => last.after = AddWrap(last.c0, BlocksOf(Len(last.data)))

\* C4: no keystream reuse. The counter values one instance hands to the
\* forward permutation, over all its calls, are pairwise distinct.
C4_NoCounterReuse ==
  \A i, j \in DOMAIN fedall : i # j => fedall[i] # fedall[j]

\* C5: invalid length is an error. Whenever the key or the block given to
\* _chaskey_block is not exactly 16 bytes long, the call raises and returns
\* no value.
C5_InvalidLengthRaises ==
  (blk.op = "block" /\ (Len(blk.key) # 16 \/ Len(blk.buf) # 16))
    => blk.res.kind \notin {"bytes", "int"}

\* C6: failed calls are atomic. Whenever encrypt or decrypt ends in an error,
\* the caller gets no output and the instance's counter is what it was before
\* the call.
C6_FailedCallAtomic ==
  (IsCall(last) /\ last.kind # "bytes") => (last.out = <<>> /\ last.after = last.c0)

\* C7: the counter wraps modulo 2^128. When a block is processed while the
\* counter holds 2^128 - 1, the increment succeeds (the next value being 0)
\* and the call goes on to return.
C7_CounterWraps ==
  (IsCall(last) /\ \E i \in DOMAIN last.fed : last.fed[i] = CounterMax)
    => /\ last.kind = "bytes"
       /\ \A i \in DOMAIN last.fed :
            (last.fed[i] = CounterMax /\ i < Len(last.fed)) => last.fed[i + 1] = Bytes(16, 0)

\* the first n bytes of d, each XORed with the byte of ks at its place
MaskedBlock(ks, d, n) == [x \in 1..n |-> ByteXor(d[x], ks[x])]

\* what C8 says encrypt returns: block m of d masked with the forward
\* permutation of the counter c0 + m, the last one cut to the bytes that remain
RECURSIVE Masked(_, _, _)
Masked(key, c, d) ==
  IF d = <<>> THEN <<>>
  ELSE LET n == IF Len(d) < 16 THEN Len(d) ELSE 16
       IN  MaskedBlock(permute(order, TRUE, unpack(order, c), unpack(order, key)), d, n)
             \o Masked(key, AddWrap(c, 1), SubSeq(d, n + 1, Len(d)))

\* C8: keystream construction. For a 16-byte key, an instance whose counter is
\* c0 and any data d, encrypt(d) returns out with out[j] = d[j] XOR KS[j mod 16],
\* KS the forward permutation of the counter c0 + floor(j/16); decrypt(d)
\* returns the same bytes.
C8_KeystreamMasksData ==
  OnSound(last) => (last.kind = "bytes" /\ last.out = Masked(last.key, last.c0, last.data))

\* The part of C8 that the code keeps: what a call returns is the masked data.
KeystreamMasksDataWhenReturned ==
  (OnSound(last) /\ last.kind = "bytes") => last.out = Masked(last.key, last.c0, last.data)

\* C9: length preservation and empty input. For every 16-byte key, 16-byte
\* counter and input d, encrypt(d) and decrypt(d) return exactly len(d) bytes;
\* for empty d the result is empty, no keystream block is computed and the
\* counter is unmodified.
C9_LengthPreserved ==
  OnSound(last) =>
    /\ last.kind = "bytes"
    /\ Len(last.out) = Len(last.data)
    /\ last.data = <<>> => (last.fed = <<>> /\ last.after = last.c0)

\* The part of C9 that the code keeps.
LengthPreservedWhenReturned ==
  (IsCall(last) /\ last.kind = "bytes") =>
    /\ Len(last.out) = Len(last.data)
    /\ last.data = <<>> => (last.fed = <<>> /\ last.after = last.c0)

\* C10: constructor and operations agree on the mode. On an instance that was
\* constructed, encrypt and decrypt never fail with the unsupported-mode error
\* nor with the missing-counter error.
C10_ModeAccepted ==
  IsCall(last) => last.kind \notin {"ValueError: unsupported mode", "AttributeError"}

\* the known answer of tests/test_chaskey.py
KnownAnswer ==
  (order = "little" /\ IsCall(last) /\ last.key = KeyTest /\ last.c0 = IvTest
     /\ last.mode = ctr /\ last.data \in {Foo, <<43, 218, 214>>})
    => last.out = (IF last.data = Foo THEN <<43, 218, 214>> ELSE Foo)

====
